---- MODULE Spec2Model ----
(***************************************************************************)
(* A model of newsroom/search.py: BaseSearchService.get, the prefill /     *)
(* validate / filter / compile stages, the all-versions search and the     *)
(* version-chain resolver get_last_version.                                *)
(*                                                                         *)
(* Strings whose characters the code looks at (product ids, navigation     *)
(* ids, comma-delimited parameters) are sequences of one-character         *)
(* strings; every other string is a TLA+ string.  A missing or falsy       *)
(* string value (None, '') is "".                                          *)
(***************************************************************************)
EXTENDS Integers, Sequences, FiniteSets, TLC

(***************************************************************************)
(* Program constants                                                       *)
(***************************************************************************)
default_page_size == 25
PageLimit == 1000
AllVersionsSize == 1000

(***************************************************************************)
(* Bounds of the model                                                     *)
(***************************************************************************)
\* Depth at which a runaway recursion of get_last_version ends in Python's
\* RecursionError.  It exceeds the number of documents, so a walk over an
\* acyclic chain never reaches it.
RecursionLimit == 4

(***************************************************************************)
(* Python values                                                           *)
(***************************************************************************)
\* A numeric request parameter: not given, an integer (or a string int()
\* parses to n), or something int() rejects.
AbsentArg == [p |-> "absent", n |-> 0]
BadArg == [p |-> "bad", n |-> 0]
IntArg(n) == [p |-> "int", n |-> n]

\* A list-or-delimited-string request parameter.
NoList == [shape |-> "none", list |-> <<>>, str |-> <<>>]
ListOf(l) == [shape |-> "list", list |-> l, str |-> <<>>]
StrOf(s) == [shape |-> "str", list |-> <<>>, str |-> s]
OtherShape == [shape |-> "other", list |-> <<>>, str |-> <<>>]

\* Python truthiness of such a parameter: None, '' and [] are falsy.
Truthy(a) ==
    \/ a.shape = "other"
    \/ a.shape = "list" /\ a.list # <<>>
    \/ a.shape = "str" /\ a.str # <<>>

\* str.split(','): the pieces between the commas, empty pieces kept.
RECURSIVE SplitFrom(_, _, _)
SplitFrom(s, i, cur) ==
    IF i > Len(s) THEN <<cur>>
    ELSE IF s[i] = "," THEN <<cur>> \o SplitFrom(s, i + 1, <<>>)
    ELSE SplitFrom(s, i + 1, Append(cur, s[i]))

split(s) == SplitFrom(s, 1, <<>>)

\* Iterating a str yields its characters, each a str of length one.
Chars(s) == [i \in 1..Len(s) |-> <<s[i]>>]

\* `sub in s` for two str values: substring containment.
Substring(sub, s) ==
    \E i \in 0..(Len(s) - Len(sub)) :
        \A j \in 1..Len(sub) : s[i + j] = sub[j]

SeqRange(s) == {s[i] : i \in 1..Len(s)}

\* `x in p` and `for x in p` for a list-or-string parameter p.
Elements(p) ==
    IF p.shape = "list" THEN SeqRange(p.list)
    ELSE IF p.shape = "str" THEN SeqRange(Chars(p.str))
    ELSE {}

Contains(p, x) ==
    IF p.shape = "list" THEN x \in SeqRange(p.list)
    ELSE IF p.shape = "str" THEN Substring(x, p.str)
    ELSE FALSE

(***************************************************************************)
(* Clauses of the bool query: {kind: {field: value}}                       *)
(***************************************************************************)
Clause(k, f, v) == [k |-> k, f |-> f, v |-> v]

CompositeExclusion == Clause("term", "type", <<"composite">>)
ItemsInclusion == Clause("term", "_type", <<"items">>)
NextVersionExclusion == Clause("constant_score_exists", "nextversion", <<>>)

query_string(query, default_operator) ==
    Clause("query_string", "query", <<query, default_operator>>)

EmptyBool == [must |-> <<>>, must_not |-> <<>>, should |-> <<>>,
              minimum_should_match |-> 0]

(***************************************************************************)
(* The collaborators the service reads: users, companies, products,        *)
(* settings.  Their answers are inputs of a request.                       *)
(***************************************************************************)
NoUser == "none"
NoCompany == "none"
Users == {"admin", "alice", "bob", "carol"}

\* newsroom.template_filters.is_admin
is_admin(user) == user = "admin"

\* users.find_one(_id=...): None for an unknown id.
find_user(id) == IF id \in Users THEN id ELSE NoUser

Companies ==
    [c1 |-> [_id |-> "c1", company_type |-> "t1", archive_access |-> FALSE],
     c2 |-> [_id |-> "c2", company_type |-> "", archive_access |-> TRUE]]

\* newsroom.companies.get_user_company
get_user_company(user) ==
    IF user = "alice" THEN "c1" ELSE IF user = "bob" THEN "c2" ELSE NoCompany

\* app.config['COMPANY_TYPES']
COMPANY_TYPES ==
    <<[id |-> "t1",
       wire_must |-> <<>>,
       wire_must_not |-> <<[k |-> "term", f |-> "genre", v |-> <<"embargoed">>]>>]>>

\* Product records: _id, sd_product_id (products.code) and stored query.
Product(id, code, query) == [_id |-> id, sd_product_id |-> code, query |-> query]
Pa == Product(<<"a">>, "C1", "")
Pb == Product(<<"b">>, "", "category:sports")
Pab == Product(<<"a", "b">>, "", "")

\* What get_products_by_navigation / get_products_by_company /
\* get_product_by_id may answer.
ProductLists == {<<>>, <<Pa>>, <<Pa, Pb>>, <<Pab>>, <<Pa, Pb, Pab>>}

(***************************************************************************)
(* The document store / index: every document has an _id, and may have a   *)
(* nextversion link and an original_id.                                    *)
(***************************************************************************)
DocSeq == <<"d1", "d2", "d3">>
DocIds == SeqRange(DocSeq)
GoneId == "gone"
OriginalIds == {"o1", "o2"}
DocFields == [nextversion : DocIds \cup {GoneId, ""}, original_id : OriginalIds \cup {""}]
AllStores == [DocIds -> DocFields]
DefaultStore == [d \in DocIds |-> [nextversion |-> "", original_id |-> ""]]

\* The documents of a set as the list the index returns them in.
InSet(S, d) == d \in S
DocsOf(S) == SelectSeq(DocSeq, LAMBDA d : InSet(S, d))

(***************************************************************************)
(* get_last_version                                                        *)
(***************************************************************************)
RecursionError == "RecursionError"

\* The original_id query: documents with that original_id and no
\* nextversion.  One result is asked for; which one is the index's choice.
\* The original_id query without its must_not on nextversion.
original_id_lookup_any_version(st, original_id) ==
    {x \in DocIds : st[x].original_id = original_id}

original_id_lookup(st, original_id) ==
    {x \in DocIds : st[x].original_id = original_id /\ st[x].nextversion = ""}

\* find_one(req=None, _id=...): the document, or None ("").
find_one(st, id) == IF id \in DocIds THEN id ELSE ""

\* The branch taken when the next document cannot be fetched.
\* The missing next document raised as an error instead.
next_doc_missing_raises(doc) == "NotFound"

next_doc_missing(doc) == doc

\* The set of values a call may return; RecursionError stands for the
\* exception Python raises when the recursion does not end.
RECURSIVE get_last_version(_, _, _)
get_last_version(st, doc, depth) ==
    IF depth > RecursionLimit THEN {RecursionError}
    ELSE IF st[doc].nextversion = "" THEN {doc}
    ELSE LET hits == IF st[doc].original_id # ""
                     THEN original_id_lookup(st, st[doc].original_id)
                     ELSE {}
             next_doc == find_one(st, st[doc].nextversion)
         IN IF hits # {} THEN hits
            ELSE IF next_doc # "" THEN get_last_version(st, next_doc, depth + 1)
            ELSE {next_doc_missing(doc)}

\* The number of original_id queries (line 153) a call sends to the index:
\* one for every document on its way that has nextversion and original_id.
RECURSIVE original_id_lookups(_, _, _)
original_id_lookups(st, doc, depth) ==
    IF depth > RecursionLimit THEN 0
    ELSE IF st[doc].nextversion = "" THEN 0
    ELSE LET asked == st[doc].original_id # ""
             hits == IF asked THEN original_id_lookup(st, st[doc].original_id) ELSE {}
             next_doc == find_one(st, st[doc].nextversion)
         IN (IF asked THEN 1 ELSE 0)
            + (IF hits # {} THEN 0
               ELSE IF next_doc # "" THEN original_id_lookups(st, next_doc, depth + 1)
               ELSE 0)

(***************************************************************************)
(* SearchQuery                                                             *)
(***************************************************************************)
EmptySource ==
    [query |-> EmptyBool, sort |-> "", size |-> 0, from |-> 0, aggs |-> FALSE,
     highlight |-> "", post_filter |-> <<>>, has_post_filter |-> FALSE]

\* SearchQuery.__init__; args is filled by prefill_search_args.
SearchQuery(args) ==
    [user |-> NoUser, is_admin |-> FALSE, company |-> NoCompany,
     section |-> "", navigation_ids |-> <<>>, products |-> <<>>,
     requested_products |-> <<>>, args |-> args, lookup |-> "",
     projections |-> "", source |-> EmptySource, query |-> EmptyBool,
     highlight |-> ""]

Ok(s) == [s |-> s, err |-> ""]
Fail(s, e) == [s |-> s, err |-> e]

(***************************************************************************)
(* Prefill stages.  scn holds the request and the collaborators' answers.  *)
(***************************************************************************)
prefill_search_args(scn) ==
    [SearchQuery(scn.args) EXCEPT !.projections = scn.projection]

prefill_search_lookup(s, scn) == Ok([s EXCEPT !.lookup = scn.lookup])

\* prefill_search_page leaving the offset of the next page in the args.
prefill_search_page_advancing(s, scn) ==
    LET size == IF s.args.size.p = "absent" THEN default_page_size ELSE s.args.size.n
        from == IF s.args.from.p = "absent" THEN 0 ELSE s.args.from.n
    IN IF s.args.size.p = "bad" \/ s.args.from.p = "bad" THEN Fail(s, "ValueError")
       ELSE Ok([s EXCEPT !.args.sort = IF @ # "" THEN @ ELSE "versioncreated:desc",
                         !.args.size = IntArg(size),
                         !.args.from = IntArg(from + size)])

prefill_search_page(s, scn) ==
    LET sort == IF s.args.sort # "" THEN s.args.sort
                ELSE IF scn.req_sort # "" THEN scn.req_sort
                ELSE "versioncreated:desc"
        s1 == [s EXCEPT !.args.sort = sort]
        size == IF s.args.size.p = "absent" THEN default_page_size ELSE s.args.size.n
        s2 == [s1 EXCEPT !.args.size = IntArg(size)]
        from == IF s.args.from.p = "absent" THEN 0 ELSE s.args.from.n
    IN IF s.args.size.p = "bad" THEN Fail(s1, "ValueError")
       ELSE IF s.args.from.p = "bad" THEN Fail(s2, "ValueError")
       ELSE Ok([s2 EXCEPT !.args.from = IntArg(from)])

\* prefill_search_user impersonating for every caller who passes `user`.
prefill_search_user_for_any_caller(s, scn) ==
    IF s.args.user # ""
    THEN LET u == find_user(s.args.user)
         IN Ok([s EXCEPT !.user = u, !.is_admin = is_admin(u)])
    ELSE Ok([s EXCEPT !.user = scn.current_user,
                      !.is_admin = is_admin(scn.current_user)])

prefill_search_user(s, scn) ==
    LET current_user == scn.current_user
        admin == is_admin(current_user)
    IN IF admin /\ s.args.user # ""
       THEN LET u == find_user(s.args.user)
            IN Ok([s EXCEPT !.user = u, !.is_admin = is_admin(u)])
       ELSE Ok([s EXCEPT !.user = current_user, !.is_admin = admin])

prefill_search_company(s, scn) ==
    Ok([s EXCEPT !.company = get_user_company(s.user)])

prefill_search_section(s, scn) ==
    Ok([s EXCEPT !.section = IF s.args.section # "" THEN s.args.section ELSE "wire"])

\* A list parameter is taken as it is, a string is split at its commas,
\* anything else is a BadParameterValueError.
parse_list_param(a) ==
    IF a.shape = "list" THEN Ok(a.list)
    ELSE IF a.shape = "str" THEN Ok(split(a.str))
    ELSE Fail(<<>>, "BadParameterValueError")

prefill_search_navigation(s, scn) ==
    IF Truthy(s.args.navigation)
    THEN LET r == parse_list_param(s.args.navigation)
         IN [s |-> IF r.err = "" THEN [s EXCEPT !.navigation_ids = r.s] ELSE s,
             err |-> r.err]
    ELSE Ok([s EXCEPT !.navigation_ids = <<>>])

\* The decision table with the product parameter ahead of the navigation.
entitled_products_product_first(s, scn) ==
    IF s.is_admin
    THEN IF s.args.product # "" THEN scn.by_id
         ELSE IF Len(s.navigation_ids) > 0 THEN scn.by_navigation
         ELSE <<>>
    ELSE IF s.company # NoCompany
    THEN IF s.args.product # "" THEN scn.by_id_company ELSE scn.by_company
    ELSE <<>>

entitled_products(s, scn) ==
    IF s.is_admin
    THEN IF Len(s.navigation_ids) > 0 THEN scn.by_navigation
         ELSE IF s.args.product # "" THEN scn.by_id
         ELSE <<>>
    ELSE IF s.company # NoCompany
    THEN IF s.args.product # "" THEN scn.by_id_company ELSE scn.by_company
    ELSE <<>>

prefill_search_products(s, scn) ==
    LET r == IF Truthy(s.args.requested_products)
             THEN parse_list_param(s.args.requested_products)
             ELSE Ok(s.requested_products)
    IN IF r.err # "" THEN Fail(s, r.err)
       ELSE Ok([s EXCEPT !.requested_products = r.s,
                         !.products = entitled_products(s, scn)])

\* prefill_search_items without the composite exclusion.
prefill_search_items_without_composite(s, scn) ==
    Ok([s EXCEPT !.query.must = Append(@, ItemsInclusion),
                 !.query.must_not =
                     IF ~s.args.ignore_latest
                     THEN Append(@, NextVersionExclusion)
                     ELSE @])

prefill_search_items(s, scn) ==
    LET must_not == Append(s.query.must_not, CompositeExclusion)
    IN Ok([s EXCEPT !.query.must = Append(@, ItemsInclusion),
                    !.query.must_not =
                        IF ~s.args.ignore_latest
                        THEN Append(must_not, NextVersionExclusion)
                        ELSE must_not])

prefill_search_highlights(s, scn) ==
    IF scn.should_highlight /\ s.args.q # ""
    THEN Ok([s EXCEPT !.highlight = s.args.q])
    ELSE Ok(s)

\* prefill_search_query: the stages in the order of the code; a stage that
\* raises ends the run.  trace lists the stages that ran.
\* The stages with the products computed first.
PrefillStages_products_first ==
    <<"prefill_search_products", "prefill_search_lookup", "prefill_search_page",
      "prefill_search_user", "prefill_search_company", "prefill_search_section",
      "prefill_search_navigation", "prefill_search_items",
      "prefill_search_highlights">>

PrefillStages ==
    <<"prefill_search_lookup", "prefill_search_page", "prefill_search_user",
      "prefill_search_company", "prefill_search_section",
      "prefill_search_navigation", "prefill_search_products",
      "prefill_search_items", "prefill_search_highlights">>

RunStage(name, s, scn) ==
    CASE name = "prefill_search_lookup" -> prefill_search_lookup(s, scn)
      [] name = "prefill_search_page" -> prefill_search_page(s, scn)
      [] name = "prefill_search_user" -> prefill_search_user(s, scn)
      [] name = "prefill_search_company" -> prefill_search_company(s, scn)
      [] name = "prefill_search_section" -> prefill_search_section(s, scn)
      [] name = "prefill_search_navigation" -> prefill_search_navigation(s, scn)
      [] name = "prefill_search_products" -> prefill_search_products(s, scn)
      [] name = "prefill_search_items" -> prefill_search_items(s, scn)
      [] name = "prefill_search_highlights" -> prefill_search_highlights(s, scn)

RECURSIVE RunStages(_, _, _, _, _)
RunStages(names, i, s, scn, tr) ==
    IF i > Len(names) THEN [s |-> s, err |-> "", trace |-> tr]
    ELSE LET r == RunStage(names[i], s, scn)
         IN IF r.err # "" THEN [s |-> r.s, err |-> r.err, trace |-> Append(tr, names[i])]
            ELSE RunStages(names, i + 1, r.s, scn, Append(tr, names[i]))

prefill_search_query(s, scn) == RunStages(PrefillStages, 1, s, scn, <<>>)

(***************************************************************************)
(* validate_request: "" when the request passes, else the abort code.      *)
(***************************************************************************)
product_ids(products) == {products[i]._id : i \in 1..Len(products)}

\* validate_request without the check for a company that has no product.
validate_request_ignoring_empty_products(s) ==
    IF ~s.is_admin
    THEN IF s.company = NoCompany THEN "403"
         ELSE IF Truthy(s.args.requested_products)
                 /\ ~(\A p \in Elements(s.args.requested_products) :
                         p \in product_ids(s.products))
         THEN "404"
         ELSE ""
    ELSE ""

\* validate_request without the check of requested_products.
validate_request_ignoring_requested(s) ==
    IF ~s.is_admin
    THEN IF s.company = NoCompany THEN "403"
         ELSE IF Len(s.products) = 0 THEN "403"
         ELSE ""
    ELSE ""

validate_request(s) ==
    IF ~s.is_admin
    THEN IF s.company = NoCompany THEN "403"
         ELSE IF Len(s.products) = 0 THEN "403"
         ELSE IF Truthy(s.args.requested_products)
                 /\ ~(\A p \in Elements(s.args.requested_products) :
                         p \in product_ids(s.products))
         THEN "404"
         ELSE ""
    ELSE ""

(***************************************************************************)
(* Filters                                                                 *)
(***************************************************************************)
\* section_filters.apply_section_filter: one query_string clause in must
\* for each filter of the section.
RECURSIVE SectionClauses(_)
SectionClauses(qs) ==
    IF qs = <<>> THEN <<>>
    ELSE <<query_string(Head(qs), "AND")>> \o SectionClauses(Tail(qs))

apply_section_filter(s, scn) ==
    [s EXCEPT !.query.must = @ \o SectionClauses(scn.section_filters)]

RECURSIVE CompanyTypeClauses(_, _, _)
CompanyTypeClauses(types, company_type, field) ==
    IF types = <<>> THEN <<>>
    ELSE (IF Head(types).id = company_type THEN Head(types)[field] ELSE <<>>)
         \o CompanyTypeClauses(Tail(types), company_type, field)

apply_company_filter(s, scn) ==
    IF s.is_admin \/ s.company = NoCompany THEN s
    ELSE IF Companies[s.company].company_type = "" THEN s
    ELSE LET t == Companies[s.company].company_type
         IN [s EXCEPT !.query.must = @ \o CompanyTypeClauses(COMPANY_TYPES, t, "wire_must"),
                      !.query.must_not =
                          @ \o CompanyTypeClauses(COMPANY_TYPES, t, "wire_must_not")]

TimeLimitClause(limit_days) ==
    Clause("range", "versioncreated", <<"gte", "now-" \o ToString(limit_days) \o "d/d">>)

\* apply_time_limit_filter without the test of archive_access.
apply_time_limit_filter_for_every_company(s, scn) ==
    IF s.is_admin THEN s
    ELSE IF scn.limit_days # 0 /\ s.company # NoCompany
    THEN [s EXCEPT !.query.must = Append(@, TimeLimitClause(scn.limit_days))]
    ELSE s

apply_time_limit_filter(s, scn) ==
    IF s.is_admin THEN s
    ELSE IF scn.limit_days # 0 /\ s.company # NoCompany
            /\ ~Companies[s.company].archive_access
    THEN [s EXCEPT !.query.must = Append(@, TimeLimitClause(scn.limit_days))]
    ELSE s

RECURSIVE ProductCodes(_)
ProductCodes(products) ==
    IF products = <<>> THEN <<>>
    ELSE (IF Head(products).sd_product_id # "" THEN <<Head(products).sd_product_id>> ELSE <<>>)
         \o ProductCodes(Tail(products))

\* apply_product_filter: the clauses one product adds to should.
apply_product_filter(s, product) ==
    IF Truthy(s.args.requested_products)
       /\ ~Contains(s.args.requested_products, product._id)
    THEN <<>>
    ELSE IF product.query # "" THEN <<query_string(product.query, "AND")>>
    ELSE <<>>

RECURSIVE ProductClauses(_, _)
ProductClauses(s, products) ==
    IF products = <<>> THEN <<>>
    ELSE apply_product_filter(s, Head(products)) \o ProductClauses(s, Tail(products))

apply_products_filter(s, scn) ==
    IF s.is_admin /\ Len(s.navigation_ids) = 0 /\ s.args.product = "" THEN s
    ELSE LET codes == ProductCodes(s.products)
             terms == IF codes # <<>> THEN <<Clause("terms", "products.code", codes)>>
                      ELSE <<>>
         IN [s EXCEPT !.query.should = @ \o terms \o ProductClauses(s, s.products)]

\* _filter_terms over the parsed structured filter {key: values}.
RECURSIVE _filter_terms(_)
_filter_terms(filters) ==
    IF filters = <<>> THEN <<>>
    ELSE (IF Head(filters).val # <<>>
          THEN <<Clause("terms", Head(filters).key, Head(filters).val)>>
          ELSE <<>>)
         \o _filter_terms(Tail(filters))

versioncreated_range(args) ==
    Clause("range", "versioncreated", <<"from", args.created_from, "to", args.created_to>>)

\* The clauses the structured filter and the date range contribute.
RequestFilterClauses(s, scn) ==
    LET filters == s.args.filter.items
        fc == IF filters # <<>>
              THEN IF scn.filter_aggregations THEN _filter_terms(filters)
                   ELSE <<Clause("filter", "raw", <<>>)>>
              ELSE <<>>
        rc == IF s.args.created_from # "" \/ s.args.created_to # ""
              THEN <<versioncreated_range(s.args)>>
              ELSE <<>>
    IN fc \o rc

apply_request_filter(s, scn) ==
    LET s1 == IF s.args.q # ""
              THEN [s EXCEPT !.query.must =
                        Append(@, query_string(s.args.q,
                                   IF s.args.default_operator # ""
                                   THEN s.args.default_operator ELSE "AND"))]
              ELSE s
        extra == RequestFilterClauses(s, scn)
    IN IF s.args.filter.shape = "typeerror" THEN Fail(s1, "BadParameterValueError")
       ELSE IF s.args.filter.shape = "badjson" THEN Fail(s1, "ValueError")
       ELSE IF ~scn.filter_by_post_filter
       THEN Ok([s1 EXCEPT !.query.must = @ \o extra])
       ELSE IF extra # <<>>
       THEN Ok([s1 EXCEPT !.source.post_filter = extra, !.source.has_post_filter = TRUE])
       ELSE Ok(s1)

apply_filters(s, scn) ==
    LET s1 == apply_section_filter(s, scn)
        s2 == apply_company_filter(s1, scn)
        s3 == apply_time_limit_filter(s2, scn)
        s4 == apply_products_filter(s3, scn)
        r == apply_request_filter(s4, scn)
    IN IF r.err # "" THEN r
       ELSE IF Len(r.s.query.should) > 0
       THEN Ok([r.s EXCEPT !.query.minimum_should_match = 1])
       ELSE r

(***************************************************************************)
(* gen_source_from_search                                                  *)
(***************************************************************************)
\* gen_source_from_search with the page limit off by one.
gen_source_limit_off_by_one(s) ==
    LET from == s.args.from.n
        s1 == [s EXCEPT !.source.query = s.query,
                        !.source.sort = IF s.args.sort # "" THEN s.args.sort
                                        ELSE "versioncreated:desc",
                        !.source.size = IF s.args.size.n # 0 THEN s.args.size.n
                                        ELSE default_page_size,
                        !.source.from = from]
        s2 == IF from = 0 /\ s.args.aggs THEN [s1 EXCEPT !.source.aggs = TRUE] ELSE s1
    IN IF from > PageLimit THEN Fail(s1, "400")
       ELSE IF s.highlight # "" THEN Ok([s2 EXCEPT !.source.highlight = s.highlight])
       ELSE Ok(s2)

\* gen_source_from_search attaching the aggregations on every page.
gen_source_aggs_on_every_page(s) ==
    LET from == s.args.from.n
        s1 == [s EXCEPT !.source.query = s.query,
                        !.source.sort = IF s.args.sort # "" THEN s.args.sort
                                        ELSE "versioncreated:desc",
                        !.source.size = IF s.args.size.n # 0 THEN s.args.size.n
                                        ELSE default_page_size,
                        !.source.from = from]
        s2 == IF s.args.aggs THEN [s1 EXCEPT !.source.aggs = TRUE] ELSE s1
    IN IF from >= PageLimit THEN Fail(s1, "400")
       ELSE IF s.highlight # "" THEN Ok([s2 EXCEPT !.source.highlight = s.highlight])
       ELSE Ok(s2)

gen_source_from_search(s) ==
    LET from == s.args.from.n
        s1 == [s EXCEPT !.source.query = s.query,
                        !.source.sort = IF s.args.sort # "" THEN s.args.sort
                                        ELSE "versioncreated:desc",
                        !.source.size = IF s.args.size.n # 0 THEN s.args.size.n
                                        ELSE default_page_size,
                        !.source.from = from]
        s2 == IF from = 0 /\ s.args.aggs THEN [s1 EXCEPT !.source.aggs = TRUE] ELSE s1
    IN IF from >= PageLimit THEN Fail(s1, "400")
       ELSE IF s.highlight # "" THEN Ok([s2 EXCEPT !.source.highlight = s.highlight])
       ELSE Ok(s2)

\* get_internal_request: the JSON of the source, with the projections.
get_internal_request(s) == [source |-> s.source, projections |-> s.projections]

(***************************************************************************)
(* Requests: the raw args, the caller, and what the collaborators answer.  *)
(***************************************************************************)
NoFilter == [shape |-> "none", items |-> <<>>]
GenreFilter(shape) == [shape |-> shape, items |-> <<[key |-> "sttgenre", val |-> <<"analysis">>]>>]
FilterArgs ==
    {NoFilter, GenreFilter("dict"), GenreFilter("json"),
     [shape |-> "typeerror", items |-> <<>>], [shape |-> "badjson", items |-> <<>>]}

RequestedArgs ==
    {NoList, ListOf(<<Pa._id>>), ListOf(<<Pa._id, Pab._id>>), StrOf(<<"a">>),
     StrOf(<<"a", "b">>), StrOf(<<"a", ",", "b">>), OtherShape}

NavigationArgs == {NoList, ListOf(<<<<"n">>>>), StrOf(<<"n", ",", "m">>), OtherShape}

BaseArgs ==
    [all_versions |-> FALSE, ignore_latest |-> FALSE, from |-> AbsentArg,
     size |-> AbsentArg, sort |-> "", navigation |-> NoList,
     requested_products |-> NoList, product |-> "", q |-> "",
     default_operator |-> "", user |-> "", filter |-> NoFilter,
     created_from |-> "", created_to |-> "", aggs |-> TRUE, section |-> ""]

BaseScenario ==
    [args |-> BaseArgs, current_user |-> "alice", req_sort |-> "",
     projection |-> "", lookup |-> "",
     by_navigation |-> <<Pa, Pb>>, by_id |-> <<Pa, Pb>>,
     by_id_company |-> <<Pa, Pb>>, by_company |-> <<Pa, Pb>>,
     should_highlight |-> FALSE, section_filters |-> <<>>, limit_days |-> 0,
     filter_by_post_filter |-> FALSE, filter_aggregations |-> TRUE,
     hits |-> {}, visible |-> DocIds]

WithProducts(sc, l) ==
    [sc EXCEPT !.by_navigation = l, !.by_id = l, !.by_id_company = l, !.by_company = l]

\* Who asks for what: callers, impersonation, products, requested_products,
\* navigation and product parameters, on both search paths.
EntitlementScenarios ==
    {[WithProducts(BaseScenario, x[3]) EXCEPT
          !.current_user = x[1], !.args.user = x[2],
          !.args.requested_products = x[4], !.args.navigation = x[5],
          !.args.product = x[6], !.args.all_versions = x[7]] :
      x \in (Users \cup {NoUser}) \X {"", "alice", "admin", "ghost"} \X ProductLists
            \X RequestedArgs \X NavigationArgs \X {"", "p"} \X BOOLEAN}

\* Paging, the version flags, free text and aggregations.
PagingScenarios ==
    {[WithProducts(BaseScenario, x[2]) EXCEPT
          !.hits = {"d1", "d2"},
          !.current_user = x[1], !.args.from = x[3], !.args.size = x[4],
          !.args.all_versions = x[5], !.args.ignore_latest = x[6],
          !.args.q = x[7], !.args.aggs = x[8]] :
      x \in {"admin", "alice", "carol"} \X {<<>>, <<Pa, Pb>>}
            \X {AbsentArg, IntArg(0), IntArg(999), IntArg(1000), IntArg(1001), BadArg}
            \X {AbsentArg, IntArg(0), IntArg(50), BadArg}
            \X BOOLEAN \X BOOLEAN \X {"", "election"} \X BOOLEAN}

\* Structured filters, date ranges, time limit, section filters, highlights.
FilterScenarios ==
    {[BaseScenario EXCEPT
          !.current_user = x[1], !.args.filter = x[2],
          !.filter_by_post_filter = x[3], !.filter_aggregations = x[4],
          !.limit_days = x[5], !.args.created_from = x[6],
          !.section_filters = x[7], !.should_highlight = x[8],
          !.args.q = "election", !.args.all_versions = x[9]] :
      x \in {"admin", "alice", "bob"} \X FilterArgs \X BOOLEAN \X BOOLEAN \X {0, 7}
            \X {"", "2020-01-01"} \X {<<>>, <<"NOT slugline:draft">>} \X BOOLEAN \X BOOLEAN}

\* The product lookups answering differently: by navigation, by id, by id
\* within the company, by company.
TableScenarios ==
    {[BaseScenario EXCEPT
          !.by_navigation = <<Pa>>, !.by_id = <<Pb>>, !.by_id_company = <<Pab>>,
          !.by_company = <<Pa, Pb>>,
          !.current_user = x[1], !.args.user = x[2], !.args.navigation = x[3],
          !.args.product = x[4]] :
      x \in (Users \cup {NoUser}) \X {"", "bob"} \X {NoList, ListOf(<<<<"n">>>>)}
            \X {"", "p"}}

\* All-versions searches: every set of first-pass matches, among the
\* documents that satisfy the restrictions of the requester (for an admin,
\* who has none, all documents).
VersionScenarios ==
    {[BaseScenario EXCEPT
          !.current_user = x[1], !.args.all_versions = TRUE, !.hits = x[2],
          !.visible = x[3]] :
      x \in {y \in {"admin", "alice"} \X (SUBSET DocIds) \X (SUBSET DocIds) :
                /\ y[2] \subseteq y[3]
                /\ y[1] = "admin" => y[3] = DocIds}}

\* The stores an all-versions search is run against.
VersionStores ==
    {st \in AllStores : \A d \in DocIds : st[d].original_id \in {"", "o1"}}

\* The stores without original_id tracking.
LinkOnlyStores == {st \in AllStores : \A d \in DocIds : st[d].original_id = ""}

\* Requests that follow one that left _matched_ids behind.
FollowUpScenarios ==
    {[BaseScenario EXCEPT !.current_user = x[1], !.args.all_versions = x[2], !.hits = x[3]] :
      x \in {"admin", "carol"} \X BOOLEAN \X {{}, {"d1"}}}

Calls ==
    ((EntitlementScenarios \cup PagingScenarios \cup FilterScenarios \cup TableScenarios)
        \X {DefaultStore})
    \cup {c \in VersionScenarios \X VersionStores :
              c[1].current_user = "admin" \/ c[2] \in LinkOnlyStores}

FollowUpCalls == FollowUpScenarios \X {DefaultStore}

(***************************************************************************)
(* State                                                                   *)
(***************************************************************************)
VARIABLES
    store,          \* the documents of the index
    scn,            \* the request being served and its collaborators' answers
    pc,             \* where get() is
    search,         \* the SearchQuery of the request
    trace,          \* the stages that ran for the request
    outcome,        \* "", "ok", or the error the request ended with
    dispatched,     \* the internal requests sent to the index, in order
    results,        \* the documents the first pass returned
    next_item_ids,  \* the ids collected for the second pass
    _matched_ids,   \* BaseSearchService._matched_ids
    response,       \* the response handed back
    glv,            \* a direct call of get_last_version and what it returned
    threads         \* the requests served at the same time, one for each thread

vars == <<store, scn, pc, search, trace, outcome, dispatched, results,
          next_item_ids, _matched_ids, response, glv, threads>>

NoResponse == [items |-> <<>>, matched_ids |-> <<>>, has_matched_ids |-> FALSE]
NoCall == [doc |-> "", result |-> ""]
NoSearch == SearchQuery(BaseArgs)

\* The threads of the server and a thread that serves nothing.
Threads == {1, 2}
IdleThread ==
    [pc |-> "idle", scn |-> BaseScenario, search |-> NoSearch, outcome |-> "",
     dispatched |-> <<>>, results |-> <<>>, i |-> 0, next_item_ids |-> <<>>,
     response |-> NoResponse]
NoThreads == [t \in Threads |-> IdleThread]

Init ==
    /\ store = DefaultStore
    /\ scn = BaseScenario
    /\ pc = "idle"
    /\ search = NoSearch
    /\ trace = <<>>
    /\ outcome = ""
    /\ dispatched = <<>>
    /\ results = <<>>
    /\ next_item_ids = <<>>
    /\ _matched_ids = <<>>
    /\ response = NoResponse
    /\ glv = NoCall
    /\ threads = NoThreads

(***************************************************************************)
(* The index                                                               *)
(***************************************************************************)
Dispatch(kind, s) == [kind |-> kind, req |-> get_internal_request(s)]

Min(a, b) == IF a < b THEN a ELSE b

\* The page of a hit list that from and size select.
Page(hits, from, size) == SubSeq(hits, from + 1, Min(Len(hits), from + size))

TermsIds(ids) == Clause("terms", "_id", ids)

\* What the index returns for a query that is a single terms clause on _id.
ids_query_hits(st, src) ==
    Page(DocsOf(SeqRange(src.query.must[1].v) \cap DOMAIN st), src.from, src.size)

\* Lines 116-121: the loop over the first-pass documents.  Every way it can
\* end: the ids collected, or RecursionError out of get_last_version.
RECURSIVE resolve_matches(_, _, _, _, _)
\* The loop collecting the matched ids themselves, without resolving them.
RECURSIVE resolve_matches_unresolved(_, _, _, _, _)
resolve_matches_unresolved(st, docs, i, matched, next) ==
    IF i > Len(docs) THEN {[matched |-> matched, next |-> next, err |-> ""]}
    ELSE resolve_matches_unresolved(st, docs, i + 1, Append(matched, docs[i]),
                                    Append(next, docs[i]))

resolve_matches(st, docs, i, matched, next) ==
    IF i > Len(docs) THEN {[matched |-> matched, next |-> next, err |-> ""]}
    ELSE UNION {
        IF r = RecursionError
        THEN {[matched |-> Append(matched, docs[i]), next |-> next, err |-> RecursionError]}
        ELSE resolve_matches(st, docs, i + 1, Append(matched, docs[i]), Append(next, r)) :
        r \in get_last_version(st, docs[i], 1)}

\* The original_id queries sent while the documents docs are resolved, as
\* entries of the trace.
RECURSIVE lookups_of(_, _)
lookups_of(st, docs) ==
    IF docs = <<>> THEN <<>>
    ELSE [i \in 1..original_id_lookups(st, Head(docs), 1) |-> "original_id_lookup"]
         \o lookups_of(st, Tail(docs))

\* The bool query with the ids added to the clauses it has.
ids_added_to_query(ids) ==
    [must |-> <<ItemsInclusion, TermsIds(ids)>>, must_not |-> <<CompositeExclusion>>,
     should |-> <<>>, minimum_should_match |-> 0]

\* Line 125: the bool query replaced by the ids of the collected documents.
ids_only_query(ids) ==
    [must |-> <<TermsIds(ids)>>, must_not |-> <<>>, should |-> <<>>,
     minimum_should_match |-> 0]

(***************************************************************************)
(* get(): one action for each step                                         *)
(***************************************************************************)
\* An abort that records the error and lets the request go on to the index.
Abort_and_go_on(e) ==
    /\ pc' = "compiled"
    /\ outcome' = e

Abort(e) ==
    /\ pc' = "done"
    /\ outcome' = e

\* get() is entered: SearchQuery() and prefill_search_args.
Get ==
    /\ pc = "idle"
    /\ \E c \in (IF _matched_ids = <<>> THEN Calls ELSE FollowUpCalls) :
        /\ scn' = c[1]
        /\ store' = c[2]
        /\ search' = prefill_search_args(c[1])
    /\ pc' = "args"
    /\ trace' = <<"prefill_search_args">>
    /\ outcome' = ""
    /\ dispatched' = <<>>
    /\ results' = <<>>
    /\ next_item_ids' = <<>>
    /\ response' = NoResponse
    /\ UNCHANGED <<_matched_ids, glv>>
    /\ UNCHANGED threads

\* The branch of get() on all_versions, then prefill_search_query.
PrefillSearchQuery ==
    /\ pc = "args"
    /\ LET s0 == IF search.args.all_versions
                 THEN [search EXCEPT !.args.ignore_latest = TRUE]
                 ELSE search
           r == prefill_search_query(s0, scn)
       IN /\ search' = r.s
          /\ trace' = trace \o r.trace
          /\ IF r.err # "" THEN Abort(r.err)
             ELSE pc' = "prefilled" /\ outcome' = outcome
    /\ UNCHANGED <<store, scn, dispatched, results, next_item_ids, _matched_ids,
                   response, glv>>
    /\ UNCHANGED threads

ValidateRequest ==
    /\ pc = "prefilled"
    /\ trace' = Append(trace, "validate_request")
    /\ LET e == validate_request(search)
       IN IF e # "" THEN Abort(e)
          ELSE pc' = "validated" /\ outcome' = outcome
    /\ UNCHANGED <<store, scn, search, dispatched, results, next_item_ids,
                   _matched_ids, response, glv>>
    /\ UNCHANGED threads

ApplyFilters ==
    /\ pc = "validated"
    /\ trace' = Append(trace, "apply_filters")
    /\ LET r == apply_filters(search, scn)
       IN /\ search' = r.s
          /\ IF r.err # "" THEN Abort(r.err)
             ELSE pc' = "filtered" /\ outcome' = outcome
    /\ UNCHANGED <<store, scn, dispatched, results, next_item_ids, _matched_ids,
                   response, glv>>
    /\ UNCHANGED threads

GenSource ==
    /\ pc = "filtered"
    /\ trace' = Append(trace, "gen_source_from_search")
    /\ LET r == gen_source_from_search(search)
       IN /\ search' = r.s
          /\ IF r.err # "" THEN Abort(r.err)
             ELSE pc' = "compiled" /\ outcome' = outcome
    /\ UNCHANGED <<store, scn, dispatched, results, next_item_ids, _matched_ids,
                   response, glv>>
    /\ UNCHANGED threads

\* Lines 83-84: the standard search is sent to the index.
SearchStandard ==
    /\ pc = "compiled"
    /\ ~search.args.all_versions
    /\ dispatched' = Append(dispatched, Dispatch("standard", search))
    /\ response' = [NoResponse EXCEPT !.items = DocsOf(scn.hits)]
    /\ trace' = Append(trace, "internal_get")
    /\ pc' = "fetched"
    /\ outcome' = "ok"
    /\ UNCHANGED <<store, scn, search, results, next_item_ids, _matched_ids, glv>>
    /\ UNCHANGED threads

\* Lines 111-115: the first pass of the all-versions search.
FirstPass ==
    /\ pc = "compiled"
    /\ search.args.all_versions
    /\ LET s1 == [search EXCEPT !.source.size = AllVersionsSize, !.source.from = 0]
       IN /\ search' = s1
          /\ dispatched' = Append(dispatched, Dispatch("first", s1))
    /\ results' = DocsOf(scn.hits)
    /\ trace' = Append(trace, "internal_get")
    /\ pc' = "first_pass"
    /\ UNCHANGED <<store, scn, outcome, next_item_ids, _matched_ids, response, glv>>
    /\ UNCHANGED threads

\* Lines 116-121: every match is recorded and resolved to its last version.
ResolveMatches ==
    /\ pc = "first_pass"
    /\ \E o \in resolve_matches(store, results, 1, <<>>, <<>>) :
        /\ _matched_ids' = o.matched
        /\ next_item_ids' = o.next
        /\ IF o.err # "" THEN Abort(o.err)
           ELSE pc' = "resolved" /\ outcome' = outcome
    /\ trace' = Append(trace, "get_last_version")
                 \o lookups_of(store, SubSeq(results, 1, Len(_matched_ids')))
    /\ UNCHANGED <<store, scn, search, dispatched, results, response, glv>>
    /\ UNCHANGED threads

\* Lines 125-128: the second pass, by the ids collected.
SecondPass ==
    /\ pc = "resolved"
    /\ LET r == gen_source_from_search([search EXCEPT !.query = ids_only_query(next_item_ids)])
       IN /\ search' = r.s
          /\ IF r.err # ""
             THEN /\ Abort(r.err)
                  /\ UNCHANGED <<dispatched, response>>
             ELSE /\ dispatched' = Append(dispatched, Dispatch("second", r.s))
                  /\ response' = [NoResponse EXCEPT
                                     !.items = ids_query_hits(store, r.s.source)]
                  /\ pc' = "fetched"
                  /\ outcome' = "ok"
    /\ trace' = trace \o <<"gen_source_from_search", "internal_get">>
    /\ UNCHANGED <<store, scn, results, next_item_ids, _matched_ids, glv>>
    /\ UNCHANGED threads

\* on_fetched, called with the response of get().
OnFetched ==
    /\ pc = "fetched"
    /\ IF _matched_ids # <<>>
       THEN /\ response' = [response EXCEPT !.matched_ids = _matched_ids,
                                            !.has_matched_ids = TRUE]
            /\ _matched_ids' = <<>>
       ELSE UNCHANGED <<response, _matched_ids>>
    /\ pc' = "done"
    /\ UNCHANGED <<store, scn, search, trace, outcome, dispatched, results,
                   next_item_ids, glv>>
    /\ UNCHANGED threads

\* The request is over; the service instance lives on.
Finish ==
    /\ pc = "done"
    /\ pc' = "idle"
    /\ scn' = BaseScenario
    /\ store' = DefaultStore
    /\ search' = NoSearch
    /\ trace' = <<>>
    /\ outcome' = ""
    /\ dispatched' = <<>>
    /\ results' = <<>>
    /\ next_item_ids' = <<>>
    /\ response' = NoResponse
    /\ UNCHANGED <<_matched_ids, glv>>
    /\ UNCHANGED threads

Next ==
    \/ Get
    \/ PrefillSearchQuery
    \/ ValidateRequest
    \/ ApplyFilters
    \/ GenSource
    \/ SearchStandard
    \/ FirstPass
    \/ ResolveMatches
    \/ SecondPass
    \/ OnFetched
    \/ Finish

Spec == Init /\ [][Next]_vars

(***************************************************************************)
(* get_last_version called on its own, over every store                    *)
(***************************************************************************)
InitVersions ==
    /\ store \in AllStores
    /\ scn = BaseScenario
    /\ pc = "idle"
    /\ search = NoSearch
    /\ trace = <<>>
    /\ outcome = ""
    /\ dispatched = <<>>
    /\ results = <<>>
    /\ next_item_ids = <<>>
    /\ _matched_ids = <<>>
    /\ response = NoResponse
    /\ glv = NoCall
    /\ threads = NoThreads

GetLastVersion ==
    /\ glv = NoCall
    /\ \E d \in DocIds :
        \E r \in get_last_version(store, d, 1) :
            glv' = [doc |-> d, result |-> r]
    /\ UNCHANGED <<store, scn, pc, search, trace, outcome, dispatched, results,
                   next_item_ids, _matched_ids, response>>
    /\ UNCHANGED threads

NextVersions == GetLastVersion

SpecVersions == InitVersions /\ [][NextVersions]_vars

(***************************************************************************)
(* The claims.  The requester of a request is the identity its entitlement *)
(* is computed for: the impersonated user for an admin who passes `user`,  *)
(* else the caller.                                                        *)
(***************************************************************************)
Active == pc # "idle"
Stages == SeqRange(trace)

Requester(sc) ==
    IF is_admin(sc.current_user) /\ sc.args.user # ""
    THEN find_user(sc.args.user)
    ELSE sc.current_user

CompanyProducts(sc) == IF sc.args.product # "" THEN sc.by_id_company ELSE sc.by_company

Unentitled(sc) ==
    /\ ~is_admin(Requester(sc))
    /\ \/ get_user_company(Requester(sc)) = NoCompany
       \/ CompanyProducts(sc) = <<>>

\* A parameter a prefill stage rejects, and the error it raises.
Malformed(sc) ==
    \/ sc.args.size.p = "bad"
    \/ sc.args.from.p = "bad"
    \/ sc.args.navigation.shape = "other"
    \/ sc.args.requested_products.shape = "other"

ParameterError(sc) ==
    IF sc.args.size.p = "bad" \/ sc.args.from.p = "bad" THEN "ValueError"
    ELSE "BadParameterValueError"

\* C1 as claimed: a request of a non-admin requester without a company, or
\* with a company that has no entitled product, ends with the 403 error and
\* nothing is sent to the index, on both search paths.
C1_AlwaysForbidden ==
    (Active /\ Unentitled(scn)) =>
        /\ dispatched = <<>>
        /\ pc = "done" => outcome = "403"

\* C1 amended: for such a request nothing is ever sent to the index and
\* get() never gets past validation; it ends with the 403 error unless a
\* prefill stage has already rejected a malformed size, from, navigation or
\* requested_products parameter, and then it ends with that stage's error.
C1_ForbiddenUnlessMalformed ==
    (Active /\ Unentitled(scn)) =>
        /\ dispatched = <<>>
        /\ pc \in {"args", "prefilled", "done"}
        /\ pc = "done" =>
              outcome = IF Malformed(scn) THEN ParameterError(scn) ELSE "403"

\* Reached: a company user whose company has no product is refused with 403
\* on the all-versions path.
C1_Witness ==
    /\ pc = "done"
    /\ outcome = "403"
    /\ scn.args.all_versions
    /\ search.company # NoCompany
    /\ search.products = <<>>
    /\ dispatched = <<>>

Sent == {dispatched[i] : i \in 1..Len(dispatched)}
SentKinds == {d.kind : d \in Sent}
HasClause(clauses, c) == c \in SeqRange(clauses)

\* C2: every request get() sends to the index, on the standard path and in
\* both passes of the all-versions search, has a `from` of at most 999.
C2_FromAtMost999 ==
    \A d \in Sent : d.req.source.from <= 999

\* Reached: a second pass sent with the caller's from of 999.
C2_Witness ==
    \E d \in Sent : d.kind = "second" /\ d.req.source.from = 999

\* The offset get() derives from the raw `from` parameter.
DerivedFrom(sc) == IF sc.args.from.p = "int" THEN sc.args.from.n ELSE 0

\* The request gets through prefill_search_query, validate_request and
\* apply_filters.
PassesEarlierStages(sc) ==
    /\ ~Malformed(sc)
    /\ sc.args.filter.shape \notin {"typeerror", "badjson"}
    /\ \/ is_admin(Requester(sc))
       \/ /\ get_user_company(Requester(sc)) # NoCompany
          /\ CompanyProducts(sc) # <<>>
          /\ Elements(sc.args.requested_products)
                 \subseteq product_ids(CompanyProducts(sc))

\* C3 as claimed, for requests whose parameters are well formed: a request
\* whose derived offset is 1000 or more ends with the 400 error and nothing
\* is sent, whoever the requester is.
C3_Always400 ==
    (Active /\ DerivedFrom(scn) >= 1000 /\ ~Malformed(scn)) =>
        /\ dispatched = <<>>
        /\ pc = "done" => outcome = "400"

\* C3 amended: a request whose derived offset is 1000 or more never sends
\* anything to the index; it ends with the 400 error when it gets through
\* the prefill stages, validation and the filters (so for every admin and
\* every entitled company user with well-formed parameters), and with the
\* error of the earlier stage (403, 404, a parameter error) when it does not.
C3_400AfterValidation ==
    (Active /\ DerivedFrom(scn) >= 1000) =>
        /\ dispatched = <<>>
        /\ pc \notin {"compiled", "first_pass", "resolved", "fetched"}
        /\ pc = "done" =>
              /\ (outcome = "400") = PassesEarlierStages(scn)
              /\ (outcome = "400") = ("gen_source_from_search" \in Stages)

\* Reached: an all-versions search of an entitled company user with from 1000
\* ends with 400 before its first pass.
C3_Witness ==
    /\ pc = "done"
    /\ outcome = "400"
    /\ scn.args.all_versions
    /\ ~search.is_admin
    /\ search.source.from = 1000
    /\ dispatched = <<>>

\* The parsed requested_products holds an id that is the id of no entitled
\* product.
RequestsUnentitledProduct ==
    /\ "prefill_search_products" \in Stages
    /\ Truthy(search.args.requested_products)
    /\ search.args.requested_products.shape # "other"
    /\ \E id \in SeqRange(search.requested_products) : id \notin product_ids(search.products)

\* C4 as claimed, for the non-admin requesters the 403 checks let through:
\* whenever requested_products holds an id that is the id of no entitled
\* product, the request ends with the 404 error and nothing is sent.
C4_Always404 ==
    (/\ RequestsUnentitledProduct
     /\ ~search.is_admin
     /\ search.company # NoCompany
     /\ search.products # <<>>) =>
        /\ dispatched = <<>>
        /\ pc = "done" => outcome = "404"

\* What validate_request does guarantee: for a non-admin requester with a
\* company and at least one entitled product, a requested_products list
\* holding an id that is the id of no entitled product ends the request with
\* the 404 error, and nothing is sent.
C4_404ForCompanyUserList ==
    (/\ RequestsUnentitledProduct
     /\ search.args.requested_products.shape = "list"
     /\ ~search.is_admin
     /\ search.company # NoCompany
     /\ search.products # <<>>) =>
        /\ dispatched = <<>>
        /\ pc \in {"prefilled", "done"}
        /\ pc = "done" => outcome = "404"

\* Reached: a company user asks for products a and ab, is entitled to a and
\* b only, and gets 404.
C4_Witness ==
    /\ pc = "done"
    /\ outcome = "404"
    /\ ~search.is_admin
    /\ search.args.requested_products = ListOf(<<Pa._id, Pab._id>>)
    /\ search.products = <<Pa, Pb>>
    /\ dispatched = <<>>

\* C5 as claimed: every request sent to the index, the second pass of the
\* all-versions search included, excludes composites in must_not and
\* includes the items type in must.
C5_EverySentRequest ==
    \A d \in Sent :
        /\ HasClause(d.req.source.query.must_not, CompositeExclusion)
        /\ HasClause(d.req.source.query.must, ItemsInclusion)

\* C5 amended: the standard search and the first pass of the all-versions
\* search carry both clauses; the second pass carries neither, its bool
\* query being the single terms clause on _id.
C5_StandardAndFirstPass ==
    \A d \in Sent :
        IF d.kind = "second"
        THEN d.req.source.query = ids_only_query(next_item_ids)
        ELSE /\ HasClause(d.req.source.query.must_not, CompositeExclusion)
             /\ HasClause(d.req.source.query.must, ItemsInclusion)

\* Reached: both passes of an all-versions search sent, the first one with a
\* caller-supplied structured filter merged into must.
C5_Witness ==
    /\ SentKinds = {"first", "second"}
    /\ scn.args.filter.shape = "dict"
    /\ Len(dispatched[1].req.source.query.must) > 2

\* C6: a request that does not ask for all versions is compiled with the
\* nextversion exclusion in must_not, whatever else the caller passes.
C6_LatestOnlyByDefault ==
    \A d \in Sent :
        ~scn.args.all_versions =>
            HasClause(d.req.source.query.must_not, NextVersionExclusion)

(***************************************************************************)
(* Version chains, as the claims speak of them: the documents reached from *)
(* d by following nextversion.                                             *)
(***************************************************************************)
RECURSIVE Walk(_, _, _)
Walk(st, d, n) ==
    IF st[d].nextversion = "" THEN [end |-> d, how |-> "head", path |-> {d}]
    ELSE IF st[d].nextversion \notin DOMAIN st
    THEN [end |-> d, how |-> "dangling", path |-> {d}]
    ELSE IF n = 0 THEN [end |-> d, how |-> "cycle", path |-> {d}]
    ELSE LET w == Walk(st, st[d].nextversion, n - 1)
         IN [w EXCEPT !.path = @ \cup {d}]

ChainFrom(st, d) == Walk(st, d, Cardinality(DOMAIN st))

\* The documents without nextversion that carry original_id o.
HeadsWithOriginalId(st, o) ==
    {x \in DOMAIN st : st[x].original_id = o /\ st[x].nextversion = ""}

\* What the original_id of the linked documents of the chain leads to.
LookupTargets(st, d) ==
    UNION {HeadsWithOriginalId(st, st[x].original_id) :
           x \in {y \in ChainFrom(st, d).path :
                     st[y].nextversion # "" /\ st[y].original_id # ""}}

Called == glv # NoCall

\* C7: get_last_version returns a document for every document and every
\* store, dangling and cyclic links included.
C7_AlwaysReturnsDocument ==
    Called => glv.result \in DOMAIN store

\* C8: on an acyclic chain without dangling link, whose original_id leads to
\* the head of the chain or to nothing, get_last_version returns the head:
\* the document itself when it has no nextversion, else the head found by
\* the original_id lookup or by the walk along nextversion.
C8_ReturnsChainHead ==
    (/\ Called
     /\ ChainFrom(store, glv.doc).how = "head"
     /\ LookupTargets(store, glv.doc) \subseteq {ChainFrom(store, glv.doc).end}) =>
        glv.result = ChainFrom(store, glv.doc).end

\* Reached: d1 -> d2 -> d3; d1 has an original_id the lookup finds nothing
\* for, d2 has the original_id of the head d3, and d3 is returned for d1.
C8_Witness ==
    /\ glv = [doc |-> "d1", result |-> "d3"]
    /\ store["d1"] = [nextversion |-> "d2", original_id |-> "o1"]
    /\ store["d2"] = [nextversion |-> "d3", original_id |-> "o2"]
    /\ store["d3"] = [nextversion |-> "", original_id |-> "o2"]

\* C9: when the walk from a document ends at a document whose nextversion is
\* not in the store, and no original_id lookup on the way finds anything,
\* get_last_version returns that last reachable document.
C9_ReturnsLastReachable ==
    (/\ Called
     /\ ChainFrom(store, glv.doc).how = "dangling"
     /\ LookupTargets(store, glv.doc) = {}) =>
        glv.result = ChainFrom(store, glv.doc).end

\* Reached: d1 -> d2 -> a missing document, the lookup for d1's original_id
\* finds nothing, and d2 is returned for d1.
C9_Witness ==
    /\ glv = [doc |-> "d1", result |-> "d2"]
    /\ store["d1"] = [nextversion |-> "d2", original_id |-> "o1"]
    /\ store["d2"] = [nextversion |-> GoneId, original_id |-> ""]
    /\ store["d3"].original_id = ""

\* C10: in an all-versions search that ends well, the second pass is sent
\* with exactly the ids get_last_version returned for the first-pass
\* matches, the first page of the response holds each of these documents
\* once, and on_fetched attaches the id of every first-pass match.
C10_SecondPassByLastVersions ==
    (scn.args.all_versions /\ pc \in {"fetched", "done"} /\ outcome = "ok") =>
        /\ Len(dispatched) = 2
        /\ dispatched[2].kind = "second"
        /\ dispatched[2].req.source.query.must = <<TermsIds(next_item_ids)>>
        /\ Len(next_item_ids) = Len(results)
        /\ \A i \in 1..Len(results) :
              next_item_ids[i] \in get_last_version(store, results[i], 1)
        /\ dispatched[2].req.source.from = 0 =>
              /\ SeqRange(response.items) = SeqRange(next_item_ids)
              /\ Cardinality(SeqRange(response.items)) = Len(response.items)
        /\ pc = "fetched" => _matched_ids = results
        /\ pc = "done" =>
              /\ response.matched_ids = results
              /\ response.has_matched_ids = (results # <<>>)

\* Reached: the revisions d1 and d2 of one chain both match; the response
\* holds the head d2 alone and on_fetched attaches both matched ids.
C10_Witness ==
    /\ pc = "done"
    /\ scn.args.all_versions
    /\ store["d1"].nextversion = "d2"
    /\ store["d2"].nextversion = ""
    /\ results = <<"d1", "d2">>
    /\ response.items = <<"d2">>
    /\ response.matched_ids = <<"d1", "d2">>

(***************************************************************************)
(* The response of an all-versions search                                  *)
(***************************************************************************)
Answered == scn.args.all_versions /\ pc \in {"fetched", "done"} /\ outcome = "ok"

Dangling(st, d) == st[d].nextversion # "" /\ st[d].nextversion \notin DOMAIN st

\* C11 as claimed: whatever the store holds, every document of the response
\* of an all-versions search has no nextversion link.
C11_OnlyChainHeads ==
    Answered => \A d \in SeqRange(response.items) : store[d].nextversion = ""

\* C11 amended: every document of the response of an all-versions search
\* either has no nextversion link, or has one that leads to a document
\* missing from the store (the last reachable revision of a cut chain).
C11_HeadsOrLastReachable ==
    Answered =>
        \A d \in SeqRange(response.items) :
            store[d].nextversion = "" \/ Dangling(store, d)

\* Reached: the superseded revision d1 matches, and the response holds the
\* head of its chain instead.
C11_Witness ==
    /\ Answered
    /\ results = <<"d1">>
    /\ store["d1"].nextversion = "d2"
    /\ store["d2"].nextversion = ""
    /\ response.items = <<"d2">>

(***************************************************************************)
(* Several requests served at the same time by one service instance.  The  *)
(* SearchQuery of a request is local to its thread; _matched_ids is the    *)
(* attribute of the instance all threads share.  A thread can be switched  *)
(* out between any two statements; the steps below are the statements that *)
(* touch _matched_ids or the index, each taken in one piece, together with *)
(* the thread-local statements that precede it.                            *)
(***************************************************************************)
\* Lines 73-81 and 101-105: from the raw request to the compiled source.
compile_request(sc) ==
    LET s0 == prefill_search_args(sc)
        s1 == IF s0.args.all_versions
              THEN [s0 EXCEPT !.args.ignore_latest = TRUE]
              ELSE s0
        p == prefill_search_query(s1, sc)
        v == validate_request(p.s)
        f == apply_filters(p.s, sc)
    IN IF p.err # "" THEN Fail(p.s, p.err)
       ELSE IF v # "" THEN Fail(p.s, v)
       ELSE IF f.err # "" THEN f
       ELSE gen_source_from_search(f.s)

\* The requests the threads serve: an admin, the company user alice and
\* carol, who has no company; standard and all-versions searches; the
\* documents the first pass or the standard search matches.
ThreadScenarios ==
    {[BaseScenario EXCEPT !.current_user = x[1], !.args.all_versions = x[2],
                          !.hits = x[3]] :
      x \in {"admin", "alice", "carol"} \X BOOLEAN \X {{}, {"d1"}, {"d2", "d3"}}}

\* A store with the chain d2 -> d3.
ChainStore == [DefaultStore EXCEPT !["d2"].nextversion = "d3"]

InitThreads ==
    /\ store = ChainStore
    /\ scn = BaseScenario
    /\ pc = "idle"
    /\ search = NoSearch
    /\ trace = <<>>
    /\ outcome = ""
    /\ dispatched = <<>>
    /\ results = <<>>
    /\ next_item_ids = <<>>
    /\ _matched_ids = <<>>
    /\ response = NoResponse
    /\ glv = NoCall
    /\ threads = NoThreads

Sequential == <<scn, pc, search, trace, outcome, dispatched, results,
                next_item_ids, response, glv>>

\* get() up to the compiled source; an abort ends the request.
ThreadGet(t) ==
    /\ threads[t].pc = "idle"
    /\ \E sc \in ThreadScenarios :
        LET r == compile_request(sc)
        IN threads' = [threads EXCEPT ![t] =
               [IdleThread EXCEPT !.scn = sc, !.search = r.s,
                                  !.pc = IF r.err # "" THEN "done" ELSE "compiled",
                                  !.outcome = r.err]]
    /\ UNCHANGED <<store, _matched_ids>>
    /\ UNCHANGED Sequential

\* Lines 83-84.
ThreadSearchStandard(t) ==
    /\ threads[t].pc = "compiled"
    /\ ~threads[t].search.args.all_versions
    /\ threads' = [threads EXCEPT
           ![t].dispatched = Append(@, Dispatch("standard", threads[t].search)),
           ![t].response = [NoResponse EXCEPT !.items = DocsOf(threads[t].scn.hits)],
           ![t].outcome = "ok",
           ![t].pc = "fetched"]
    /\ UNCHANGED <<store, _matched_ids>>
    /\ UNCHANGED Sequential

\* Lines 111-117: the first pass, then self._matched_ids = [].
ThreadFirstPass(t) ==
    /\ threads[t].pc = "compiled"
    /\ threads[t].search.args.all_versions
    /\ LET s1 == [threads[t].search EXCEPT !.source.size = AllVersionsSize,
                                           !.source.from = 0]
       IN threads' = [threads EXCEPT
              ![t].search = s1,
              ![t].dispatched = Append(@, Dispatch("first", s1)),
              ![t].results = DocsOf(threads[t].scn.hits),
              ![t].i = 1,
              ![t].pc = "first_pass"]
    /\ _matched_ids' = <<>>
    /\ UNCHANGED store
    /\ UNCHANGED Sequential

\* Lines 119-121, one turn of the loop: the id of the match is appended to
\* the list self._matched_ids is bound to at that moment.
ThreadResolveMatch(t) ==
    /\ threads[t].pc = "first_pass"
    /\ threads[t].i <= Len(threads[t].results)
    /\ LET doc == threads[t].results[threads[t].i]
       IN /\ _matched_ids' = Append(_matched_ids, doc)
          /\ \E r \in get_last_version(store, doc, 1) :
                IF r = RecursionError
                THEN threads' = [threads EXCEPT ![t].pc = "done",
                                                ![t].outcome = RecursionError]
                ELSE threads' = [threads EXCEPT
                         ![t].next_item_ids = Append(@, r),
                         ![t].i = @ + 1]
    /\ UNCHANGED store
    /\ UNCHANGED Sequential

\* Lines 125-128, once the loop is over.
ThreadSecondPass(t) ==
    /\ threads[t].pc = "first_pass"
    /\ threads[t].i > Len(threads[t].results)
    /\ LET r == gen_source_from_search(
                    [threads[t].search EXCEPT
                        !.query = ids_only_query(threads[t].next_item_ids)])
       IN IF r.err # ""
          THEN threads' = [threads EXCEPT ![t].search = r.s, ![t].pc = "done",
                                          ![t].outcome = r.err]
          ELSE threads' = [threads EXCEPT
                   ![t].search = r.s,
                   ![t].dispatched = Append(@, Dispatch("second", r.s)),
                   ![t].response = [NoResponse EXCEPT
                                       !.items = ids_query_hits(store, r.s.source)],
                   ![t].outcome = "ok",
                   ![t].pc = "fetched"]
    /\ UNCHANGED <<store, _matched_ids>>
    /\ UNCHANGED Sequential

\* on_fetched, lines 94-96, with the response of the thread's request.
ThreadOnFetched(t) ==
    /\ threads[t].pc = "fetched"
    /\ IF _matched_ids # <<>>
       THEN /\ threads' = [threads EXCEPT
                   ![t].response = [@ EXCEPT !.matched_ids = _matched_ids,
                                             !.has_matched_ids = TRUE],
                   ![t].pc = "done"]
            /\ _matched_ids' = <<>>
       ELSE /\ threads' = [threads EXCEPT ![t].pc = "done"]
            /\ UNCHANGED _matched_ids
    /\ UNCHANGED store
    /\ UNCHANGED Sequential

NextThreads ==
    \E t \in Threads :
        \/ ThreadGet(t)
        \/ ThreadSearchStandard(t)
        \/ ThreadFirstPass(t)
        \/ ThreadResolveMatch(t)
        \/ ThreadSecondPass(t)
        \/ ThreadOnFetched(t)

SpecThreads == InitThreads /\ [][NextThreads]_vars

\* C12: under every interleaving of the requests of two threads, the
\* response of an all-versions search carries exactly the ids its own first
\* pass matched, and the response of a standard search carries no matched
\* ids.
C12_MatchedIdsOfOwnRequest ==
    \A t \in Threads :
        (threads[t].pc = "done" /\ threads[t].outcome = "ok") =>
            /\ threads[t].response.matched_ids = threads[t].results
            /\ threads[t].response.has_matched_ids = (threads[t].results # <<>>)

\* C13: in a run of requests served one after another, _matched_ids is
\* empty whenever a request starts and holds ids only from the first pass
\* of an all-versions search to the on_fetched of that request, also after
\* an all-versions search that failed part-way.
C13_EmptyOutsideAllVersions ==
    /\ pc \in {"args", "prefilled", "validated", "filtered", "compiled"} =>
          _matched_ids = <<>>
    /\ (pc \in {"fetched", "done"} /\ ~scn.args.all_versions) =>
          ~response.has_matched_ids

Prefilled == pc \in {"prefilled", "validated", "filtered", "compiled",
                     "first_pass", "resolved", "fetched"}

Impersonating(sc) == is_admin(sc.current_user) /\ sc.args.user # ""

\* C14: the identity of a request is the user named by `user` only when the
\* caller is an admin and passes `user`, and is_admin is then that user's;
\* for every other caller `user` changes nothing: the identity is the
\* caller, is_admin is the caller's (false for a non-admin), the company is
\* the caller's, and the source compiled is the one compiled without `user`.
C14_ImpersonationByAdminOnly ==
    Prefilled =>
        /\ Impersonating(scn) =>
              /\ search.user = find_user(scn.args.user)
              /\ search.is_admin = is_admin(find_user(scn.args.user))
        /\ ~Impersonating(scn) =>
              /\ search.user = scn.current_user
              /\ search.is_admin = is_admin(scn.current_user)
        /\ ~is_admin(scn.current_user) =>
              /\ ~search.is_admin
              /\ search.company = get_user_company(scn.current_user)
              /\ search.products = entitled_products(
                     [search EXCEPT !.user = scn.current_user, !.is_admin = FALSE,
                                    !.company = get_user_company(scn.current_user)],
                     scn)
              /\ pc = "compiled" =>
                    search.source =
                        compile_request([scn EXCEPT !.args.user = ""]).s.source

\* Reached: alice passes user=admin and is served her own view.
C14_Witness ==
    /\ pc = "fetched"
    /\ scn.current_user = "alice"
    /\ scn.args.user = "admin"
    /\ search.user = "alice"
    /\ ~search.is_admin
    /\ search.company = "c1"
    /\ Len(dispatched) = 1

\* C15: once prefill_search_products has run, the entitled products are the
\* answer the decision table picks: for an admin the products of the
\* navigation ids when there are navigation ids, else the product of the
\* `product` parameter when there is one, else none; for a non-admin with a
\* company that product within the company's products when `product` is
\* given, else the company's products narrowed by the navigation ids; for a
\* non-admin without company none.
C15_EntitledProductsTable ==
    Prefilled =>
        LET admin == search.is_admin
            navigation == search.navigation_ids # <<>>
            product == scn.args.product # ""
            company == search.company # NoCompany
        IN /\ (admin /\ navigation) => search.products = scn.by_navigation
           /\ (admin /\ ~navigation /\ product) => search.products = scn.by_id
           /\ (admin /\ ~navigation /\ ~product) => search.products = <<>>
           /\ (~admin /\ company /\ product) => search.products = scn.by_id_company
           /\ (~admin /\ company /\ ~product) => search.products = scn.by_company
           /\ (~admin /\ ~company) => search.products = <<>>

\* Reached: an admin passes navigation ids and a product id, and gets the
\* products of the navigation, which are not the product of the id.
C15_Witness ==
    /\ Prefilled
    /\ search.is_admin
    /\ search.navigation_ids # <<>>
    /\ scn.args.product # ""
    /\ scn.by_navigation # scn.by_id
    /\ search.products = scn.by_navigation

(***************************************************************************)
(* The should list the claims describe                                     *)
(***************************************************************************)
CodesOf(products) ==
    LET coded == SelectSeq(products, LAMBDA p : p.sd_product_id # "")
    IN [i \in 1..Len(coded) |-> coded[i].sd_product_id]

\* The entitled products with a stored query that requested_products, as
\* parsed into the list of requested ids, does not exclude.
QueriedProducts(s) ==
    SelectSeq(s.products,
              LAMBDA p : /\ p.query # ""
                         /\ \/ s.requested_products = <<>>
                            \/ p._id \in SeqRange(s.requested_products))

ExpectedShould(s) ==
    (IF CodesOf(s.products) # <<>>
     THEN <<Clause("terms", "products.code", CodesOf(s.products))>>
     ELSE <<>>)
    \o [i \in 1..Len(QueriedProducts(s)) |->
            query_string(QueriedProducts(s)[i].query, "AND")]

Filtered == pc \in {"filtered", "compiled"}

\* C16: for a non-admin requester, should is the terms clause on
\* products.code with the code of every entitled product that has one (if
\* any), then one query_string clause for each entitled product with a
\* stored query that requested_products does not exclude; and
\* minimum_should_match is 1 exactly when should is not empty.
C16_ShouldOfEntitledProducts ==
    (Filtered /\ ~search.is_admin) =>
        /\ search.query.should = ExpectedShould(search)
        /\ (search.query.minimum_should_match = 1) = (search.query.should # <<>>)

\* With requested_products given as a list (or not at all) the should list
\* is the one described.
ShouldOfEntitledProductsForLists ==
    (Filtered /\ ~search.is_admin /\ search.args.requested_products.shape # "str") =>
        /\ search.query.should = ExpectedShould(search)
        /\ (search.query.minimum_should_match = 1) = (search.query.should # <<>>)

UnrestrictedAdmin ==
    search.is_admin /\ search.navigation_ids = <<>> /\ search.args.product = ""

\* C17: for an admin requester without navigation ids and without a product
\* parameter the filters add nothing to should, a free-text q is in must as
\* a query_string clause with that query, and the compiled source carries
\* aggregations only when the offset is 0.
C17_AdminSeesEverything ==
    UnrestrictedAdmin =>
        /\ Filtered =>
              /\ search.query.should = <<>>
              /\ search.query.minimum_should_match = 0
              /\ search.args.q # "" =>
                    \E op \in {"AND", search.args.default_operator} :
                        HasClause(search.query.must, query_string(search.args.q, op))
        /\ pc = "compiled" => (search.source.aggs => search.args.from.n = 0)
        /\ \A d \in Sent :
              /\ d.req.source.aggs => search.args.from.n = 0
              /\ d.kind # "second" => d.req.source.query.should = <<>>

\* Reached: an admin searches for "election" from offset 0; the request sent
\* has the query_string clause in must, no should clause, and aggregations.
C17_Witness ==
    /\ pc = "fetched"
    /\ UnrestrictedAdmin
    /\ search.args.q = "election"
    /\ Len(dispatched) = 1
    /\ dispatched[1].req.source.query.should = <<>>
    /\ HasClause(dispatched[1].req.source.query.must, query_string("election", "AND"))
    /\ dispatched[1].req.source.aggs
    /\ dispatched[1].req.source.from = 0

\* The request as the service leaves it when req.args is the dict the
\* stages write to: sort, size and from filled in, ignore_latest set.
MutatedRequest == [scn EXCEPT !.args = search.args]

\* C18: compiling the raw request a second time gives the source the first
\* compilation gave, when the second sees the raw args again and when it
\* sees the args mapping as the first compilation left it.
C18_CompileTwiceSameSource ==
    pc = "compiled" =>
        /\ compile_request(scn).err = ""
        /\ compile_request(scn).s.source = search.source
        /\ compile_request(MutatedRequest).err = ""
        /\ compile_request(MutatedRequest).s.source = search.source

\* Reached: a request without sort, size and from is compiled; its args now
\* hold the defaults, and compiling them again gives the same source.
C18_Witness ==
    /\ pc = "compiled"
    /\ scn.args.size = AbsentArg
    /\ scn.args.from = AbsentArg
    /\ scn.args.sort = ""
    /\ scn.args.all_versions
    /\ search.args.size = IntArg(default_page_size)
    /\ search.args.sort # ""
    /\ search.args.ignore_latest
    /\ search.args # scn.args
    /\ compile_request(MutatedRequest).s.source = search.source

\* The stages of a request in the order get() runs them.
PipelineOrder ==
    <<"prefill_search_args">> \o PrefillStages
        \o <<"validate_request", "apply_filters", "gen_source_from_search">>

RaisingStages(e) ==
    CASE e \in {"403", "404"} -> {"validate_request"}
      [] e = "400" -> {"gen_source_from_search"}
      [] e = "BadParameterValueError" ->
            {"prefill_search_navigation", "prefill_search_products", "apply_filters"}
      [] e = "ValueError" -> {"prefill_search_page", "apply_filters"}

\* C19: when a request ends with a parameter error, the 403, the 404 or the
\* 400, the stage that raised it is the last that ran, the stages before it
\* are those get() runs before it, nothing was sent to the index and there
\* is no response; the request is over.
C19_ErrorStopsPipeline ==
    outcome \in {"400", "403", "404", "BadParameterValueError", "ValueError"} =>
        /\ pc = "done"
        /\ dispatched = <<>>
        /\ response = NoResponse
        /\ "internal_get" \notin Stages
        /\ trace = SubSeq(PipelineOrder, 1, Len(trace))
        /\ trace[Len(trace)] \in RaisingStages(outcome)

\* Reached: an all-versions search ends with BadParameterValueError in
\* prefill_search_navigation; no later stage ran and nothing was sent.
C19_Witness ==
    /\ pc = "done"
    /\ outcome = "BadParameterValueError"
    /\ scn.args.all_versions
    /\ trace[Len(trace)] = "prefill_search_navigation"
    /\ "validate_request" \notin Stages
    /\ dispatched = <<>>

\* Stage a ran, and ran before stage b, whenever stage b ran.
RanBefore(a, b) ==
    \A j \in 1..Len(trace) :
        trace[j] = b => \E i \in 1..(j - 1) : trace[i] = a

\* The request without what the caller supplies as free text, structured
\* filter and date range.
WithoutCallerFilters ==
    [scn EXCEPT !.args.q = "", !.args.filter = NoFilter,
                !.args.created_from = "", !.args.created_to = ""]

ExclusionsFirst(query) ==
    /\ Len(query.must_not) >= 1
    /\ query.must_not[1] = CompositeExclusion
    /\ Len(query.must) >= 1
    /\ query.must[1] = ItemsInclusion
    /\ ~search.args.ignore_latest =>
          /\ Len(query.must_not) >= 2
          /\ query.must_not[2] = NextVersionExclusion

\* C20: the stages run in the order of get(): identity, company and
\* navigation ids before the entitled products, these before validation and
\* before the filters, and prefill_search_items, which appends the composite
\* exclusion and (unless ignore_latest is set) the nextversion exclusion,
\* before the filters; in the query compiled and in every request of the
\* standard search and the first pass these clauses come first, and what the
\* caller supplies as free text, filter and date range changes neither
\* must_not nor should.
C20_StageOrderAndExclusions ==
    /\ RanBefore("prefill_search_user", "prefill_search_company")
    /\ RanBefore("prefill_search_user", "prefill_search_products")
    /\ RanBefore("prefill_search_company", "prefill_search_products")
    /\ RanBefore("prefill_search_navigation", "prefill_search_products")
    /\ RanBefore("prefill_search_products", "validate_request")
    /\ RanBefore("validate_request", "apply_filters")
    /\ RanBefore("prefill_search_products", "apply_filters")
    /\ RanBefore("prefill_search_items", "apply_filters")
    /\ Filtered =>
          /\ ExclusionsFirst(search.query)
          /\ LET plain == compile_request(WithoutCallerFilters).s.query
             IN /\ search.query.must_not = plain.must_not
                /\ search.query.should = plain.should
    /\ \A d \in Sent : d.kind # "second" => ExclusionsFirst(d.req.source.query)

\* Reached: alice searches for "election" with a structured filter; the
\* request sent starts must_not with the two exclusions, has her company's
\* must_not clause after them, and the filter's terms clause in must.
C20_Witness ==
    /\ pc = "fetched"
    /\ scn.current_user = "alice"
    /\ scn.args.filter = GenreFilter("dict")
    /\ scn.args.q = "election"
    /\ ~scn.filter_by_post_filter
    /\ Len(dispatched) = 1
    /\ SubSeq(dispatched[1].req.source.query.must_not, 1, 2)
           = <<CompositeExclusion, NextVersionExclusion>>
    /\ Len(dispatched[1].req.source.query.must_not) = 3
    /\ HasClause(dispatched[1].req.source.query.must,
                 Clause("terms", "sttgenre", <<"analysis">>))

(***************************************************************************)
(* The two passes of the all-versions search                               *)
(***************************************************************************)
\* The positions of the trace that hold entry e.
PositionsOf(e) == {i \in 1..Len(trace) : trace[i] = e}

\* Every request sent to the index for the search: the passes, and the
\* original_id queries of get_last_version.
IndexRequests == Len(dispatched) + Cardinality(PositionsOf("original_id_lookup"))

\* What the caller asked for: sort, size and from as get() derives them.
CallerSort(sc) ==
    IF sc.args.sort # "" THEN sc.args.sort
    ELSE IF sc.req_sort # "" THEN sc.req_sort
    ELSE "versioncreated:desc"

CallerSize(sc) ==
    IF sc.args.size.p = "int" /\ sc.args.size.n # 0 THEN sc.args.size.n
    ELSE default_page_size

FirstPassShape(d) ==
    /\ d.kind = "first"
    /\ ~HasClause(d.req.source.query.must_not, NextVersionExclusion)
    /\ d.req.source.size = 1000
    /\ d.req.source.from = 0

SecondPassShape(d) ==
    /\ d.kind = "second"
    /\ d.req.source.query.must = <<TermsIds(next_item_ids)>>
    /\ d.req.source.query.must_not = <<>>
    /\ d.req.source.query.should = <<>>
    /\ d.req.source.sort = CallerSort(scn)
    /\ d.req.source.size = CallerSize(scn)
    /\ d.req.source.from = DerivedFrom(scn)

\* C21 as claimed: an all-versions search that is answered has sent exactly
\* two requests to the index, the first pass and the second pass, the
\* second over the ids of the chain heads of the matches.
C21_ExactlyTwoDispatches ==
    Answered =>
        /\ IndexRequests = 2
        /\ FirstPassShape(dispatched[1])
        /\ SecondPassShape(dispatched[2])
        /\ \A i \in 1..Len(next_item_ids) : store[next_item_ids[i]].nextversion = ""

\* C21 amended: an all-versions search sends its first pass, then resolves
\* every match with get_last_version, which sends one original_id query for
\* each document on its way that has nextversion and original_id, then
\* sends its second pass; the first pass has no nextversion exclusion, size
\* 1000 and from 0; the second has the single terms clause on _id over the
\* ids get_last_version returned, and the caller's sort, size and from.
C21_TwoPassesInSequence ==
    scn.args.all_versions =>
        /\ Len(dispatched) <= 2
        /\ Len(dispatched) >= 1 => FirstPassShape(dispatched[1])
        /\ Len(dispatched) = 2 =>
              /\ SecondPassShape(dispatched[2])
              /\ Len(next_item_ids) = Len(results)
              /\ \A i \in 1..Len(results) :
                    next_item_ids[i] \in get_last_version(store, results[i], 1)
        /\ Answered =>
              /\ Len(dispatched) = 2
              /\ Cardinality(PositionsOf("internal_get")) = 2
              /\ \A g \in PositionsOf("get_last_version") \cup PositionsOf("original_id_lookup") :
                    \E a, b \in PositionsOf("internal_get") : a < g /\ g < b
              /\ IndexRequests = 2 + Len(lookups_of(store, results))

\* Reached: the caller asks for size 50 from 999; the first pass goes out
\* with size 1000 from 0, the second with size 50 from 999.
C21_Witness ==
    /\ Answered
    /\ scn.args.size = IntArg(50)
    /\ scn.args.from = IntArg(999)
    /\ results = <<"d1", "d2">>
    /\ dispatched[1].req.source.size = 1000
    /\ dispatched[1].req.source.from = 0
    /\ dispatched[2].req.source.size = 50
    /\ dispatched[2].req.source.from = 999
    /\ dispatched[2].req.source.query.must = <<TermsIds(<<"d1", "d2">>)>>

(***************************************************************************)
(* The time limit                                                          *)
(***************************************************************************)
\* The clauses of must that bound versioncreated from below, relative to now.
RollingRanges(must) ==
    {i \in 1..Len(must) :
        must[i].k = "range" /\ must[i].f = "versioncreated" /\ must[i].v[1] = "gte"}

TimeLimited ==
    /\ ~search.is_admin
    /\ scn.limit_days # 0
    /\ search.company # NoCompany
    /\ ~Companies[search.company].archive_access

\* C22: the query compiled, and every request of the standard search and of
\* the first pass, has the clause versioncreated >= now-Nd/d in must, once,
\* exactly when the requester is not an admin, a day limit N other than 0 is
\* configured and the company has no archive_access; otherwise must has no
\* such clause.
C22_TimeLimitExactlyWhen ==
    /\ Filtered =>
          IF TimeLimited
          THEN /\ Cardinality(RollingRanges(search.query.must)) = 1
               /\ HasClause(search.query.must, TimeLimitClause(scn.limit_days))
          ELSE RollingRanges(search.query.must) = {}
    /\ \A d \in Sent :
          d.kind # "second" =>
              (HasClause(d.req.source.query.must, TimeLimitClause(scn.limit_days))
                  <=> TimeLimited)

\* Reached: bob, whose company has archive_access, is served without the
\* clause under a limit of 7 days.
TimeLimitWaived ==
    /\ pc = "fetched"
    /\ scn.current_user = "bob"
    /\ scn.limit_days = 7
    /\ Companies[search.company].archive_access
    /\ Len(dispatched) = 1
    /\ RollingRanges(dispatched[1].req.source.query.must) = {}

\* Reached: alice, whose company has no archive_access, is served with the
\* clause under a limit of 7 days.
C22_Witness ==
    /\ pc = "fetched"
    /\ scn.current_user = "alice"
    /\ scn.limit_days = 7
    /\ HasClause(dispatched[1].req.source.query.must, TimeLimitClause(7))

\* C23: every request of the standard search and of the first pass that is
\* sent for a non-admin requester restricts the products: should is not
\* empty and minimum_should_match is 1.
C23_NonAdminAlwaysRestricted ==
    \A d \in Sent :
        (~search.is_admin /\ d.kind # "second") =>
            /\ d.req.source.query.should # <<>>
            /\ d.req.source.query.minimum_should_match = 1

\* C24: every document of the response of an all-versions search satisfies
\* the restrictions the first pass was compiled with for the requester
\* (products, company type, time limit, section).
C24_ResponseWithinEntitlement ==
    Answered => SeqRange(response.items) \subseteq scn.visible

\* The request with requested_products given as the list of the ids its
\* comma-delimited string names.
AsList(sc) ==
    [sc EXCEPT !.args.requested_products = ListOf(split(sc.args.requested_products.str))]

\* C25: for a non-admin requester, a request with requested_products as a
\* comma-delimited string ends as the request with the list of the same
\* ids does: with the same error, or with the same compiled source.
C25_StringTreatedAsList ==
    (/\ scn.args.requested_products.shape = "str"
     /\ scn.args.requested_products.str # <<>>
     /\ ~is_admin(Requester(scn))) =>
        /\ (pc = "done" /\ outcome # "ok") => compile_request(AsList(scn)).err = outcome
        /\ pc = "compiled" =>
              /\ compile_request(AsList(scn)).err = ""
              /\ compile_request(AsList(scn)).s.source = search.source

====
